---------------------------- MODULE Spec2Model ----------------------------
(***************************************************************************)
(* package-analyser, cmd/root.go: run(pkg) analyses either a local         *)
(* directory (parseLocalPackage) or a GitHub directory                     *)
(* (parseGithubPackage) and prints, per package unit, a histogram of the   *)
(* exported functions per file, a summary line and the sorted import list. *)
(*                                                                         *)
(* Strings are sequences.  A locator is a sequence of tokens, the token    *)
(* "github.com" standing for those ten characters; an import path and an   *)
(* identifier are sequences of character codes, compared as Go compares    *)
(* strings.  One run of the program is one behaviour: Init draws the       *)
(* argument and the directory the collaborators serve, the actions are the *)
(* steps of run between two calls of a collaborator (file system, GitHub   *)
(* API, standard output).                                                  *)
(***************************************************************************)
EXTENDS Integers, Sequences, FiniteSets

VARIABLES
    pkg,              \* the locator argument of run; <<>> once consumed
    tree,             \* the directory served by the file system / by GitHub
    mode,             \* which function run called: "none", "github", "local"
    pc,               \* position of the run
    err,              \* what run returned ("nil" while running or on success)
    s,                \* parseGithubPackage: the segments of u.Path
    dirC,             \* parseGithubPackage: the directory listing
    idx,              \* parseGithubPackage: position of the range loop in dirC
    c,                \* parseGithubPackage: the content of the fetched file
    pkgs,             \* parseLocalPackage: the map returned by parser.ParseDir
    todoPkgs,         \* parseLocalPackage: keys of pkgs still to be visited
    curPkg,           \* parseLocalPackage: the key being visited
    todoFiles,        \* parseLocalPackage: keys of pkg.Files still to be visited
    publicFunctions,  \* accumulator
    fileCount,        \* accumulator
    data,             \* accumulator: per-file counts, in processing order
    imports,          \* accumulator: the keys of the map imports
    calls,            \* the GitHub API calls made so far, with their outcome
    stdout,           \* what has been written to os.Stdout
    wfail             \* the report steps whose write to os.Stdout failed

vars == <<pkg, tree, mode, pc, err, s, dirC, idx, c, pkgs, todoPkgs, curPkg,
          todoFiles, publicFunctions, fileCount, data, imports, calls,
          stdout, wfail>>

-----------------------------------------------------------------------------
(* Bounds *)

MaxFiles == 2     \* directory entries
MaxLocLen == 5    \* tokens of a locator

(* Program constants *)

GithubBins == 5   \* histogram.Hist(5, data) in parseGithubPackage
LocalBinsThree == GithubBins - 2
LocalBins == 5    \* histogram.Hist(5, data) in parseLocalPackage
MinSegments == 3  \* len(s) < 3

-----------------------------------------------------------------------------
(* Strings *)

RECURSIVE SumSeq(_)
SumSeq(q) == IF q = <<>> THEN 0 ELSE Head(q) + SumSeq(Tail(q))

Range(q) == {q[i] : i \in 1..Len(q)}

\* Go's < on strings: lexicographic on the character codes, a proper prefix
\* being smaller.
RECURSIVE StrLess(_, _)
StrLess(a, b) ==
    IF b = <<>> THEN FALSE
    ELSE IF a = <<>> THEN TRUE
    ELSE IF Head(a) # Head(b) THEN Head(a) < Head(b)
    ELSE StrLess(Tail(a), Tail(b))

\* strings.HasPrefix(pkg, "github.com")
HasGithubPrefix(loc) == Len(loc) >= 1 /\ loc[1] = "github.com"

\* index of the first occurrence of tok in loc, Len(loc) + 1 when none
RECURSIVE IndexOf(_, _)
IndexOf(loc, tok) ==
    IF loc = <<>> \/ Head(loc) = tok THEN 1 ELSE 1 + IndexOf(Tail(loc), tok)

\* url.Parse of a locator without scheme, host or fragment: the path is the
\* text before the first "?", and a "%" in it that starts no hexadecimal
\* escape (none does: no token is a hexadecimal digit) is an error.
UrlPath(loc) == SubSeq(loc, 1, IndexOf(loc, "?") - 1)
UrlParseFails(loc) == "%" \in Range(UrlPath(loc))

\* strings.Split(u.Path, "/"): one segment more than there are separators,
\* empty segments kept.
RECURSIVE Split(_)
Split(str) ==
    LET i == IndexOf(str, "/")
    IN  IF i > Len(str) THEN <<str>>
        ELSE <<SubSeq(str, 1, i - 1)>> \o Split(SubSeq(str, i + 1, Len(str)))

\* strings.Join(segs, "/")
RECURSIVE Join(_)
Join(segs) ==
    IF segs = <<>> THEN <<>>
    ELSE IF Len(segs) = 1 THEN segs[1]
    ELSE segs[1] \o <<"/">> \o Join(Tail(segs))

\* len(s) < 3
TooFewSegmentsOffByOne(segs) == Len(segs) < MinSegments - 1
TooFewSegments(segs) == Len(segs) < MinSegments

-----------------------------------------------------------------------------
(* Source files *)

\* Identifiers and raw import paths, as character codes.
IdF == <<70>>            \* F
IdG == <<71>>            \* G
IdT == <<84>>            \* T
Idf == <<102>>           \* f
PathA == <<34, 97, 34>>          \* "a"
PathAB == <<34, 97, 98, 34>>     \* "ab"
PathB == <<34, 98, 34>>          \* "b"

\* A top-level declaration: a *ast.FuncDecl or another ast.Decl, and its name.
Func(n) == [isFn |-> TRUE, name |-> n]
Gen(n) == [isFn |-> FALSE, name |-> n]

DeclLists ==
    { <<>>,
      <<Func(IdF)>>,
      <<Func(Idf), Gen(IdT)>>,
      <<Func(IdF), Func(Idf), Gen(IdT), Func(IdG)>> }

ImportLists == { <<>>, <<PathB, PathA>>, <<PathAB, PathB, PathAB>> }

PkgNames == {"p", "q"}

\* The text of a file: what parser.ParseFile makes of it.
BadText == [ok |-> FALSE, Name |-> "", Decls |-> <<>>, Imports |-> <<>>]
GoTexts ==
    {BadText} \cup
    [ok : {TRUE}, Name : PkgNames, Decls : DeclLists, Imports : ImportLists]

\* A directory entry; entry i is named f<i> with the extension ext.
Absent == [present |-> FALSE, ext |-> "", text |-> BadText]
Entries ==
    {Absent, [present |-> TRUE, ext |-> ".md", text |-> BadText]} \cup
    [present : {TRUE}, ext : {".go"}, text : GoTexts]

FileIds == 1..MaxFiles
NoDir == [exists |-> FALSE, files |-> [i \in FileIds |-> Absent]]
Trees == {NoDir} \cup [exists : {TRUE}, files : [FileIds -> Entries]]

\* strings.HasSuffix(name, ".go")
HasAnySuffix(name) == name.ext # ""
HasGoSuffix(name) == name.ext = ".go"

\* ast.IsExported(name): the first character is upper case
IsExported(name) == name # <<>> /\ Head(name) \in 65..90

\* the loop over fp.Decls: publicFunctions++ and publicFuncsPerFile++ for
\* every d with fn, isFn := d.(*ast.FuncDecl); isFn && ast.IsExported(fn.Name.Name);
\* the two increments of one file
RECURSIVE CountFuncs(_, _)
CountFuncs(decls, exportedOnly) ==
    IF decls = <<>> THEN 0
    ELSE (IF Head(decls).isFn /\ (exportedOnly => IsExported(Head(decls).name))
          THEN 1 ELSE 0)
         + CountFuncs(Tail(decls), exportedOnly)
ScanDeclsCountsEveryFunc(decls) ==
    [publicFunctions |-> CountFuncs(decls, FALSE),
     publicFuncsPerFile |-> CountFuncs(decls, TRUE)]
ScanDecls(decls) ==
    [publicFunctions |-> CountFuncs(decls, TRUE),
     publicFuncsPerFile |-> CountFuncs(decls, TRUE)]

\* the loop over fp.Imports: imports[i.Path.Value] = true
AddImportsOverwrites(is, fimports) == Range(fimports)
AddImports(is, fimports) == is \cup Range(fimports)

\* parser.ParseDir(fset, pkg, dirFilter, parser.ParseComments): the files of
\* the directory whose name ends in ".go", parsed and grouped by the package
\* name they declare; the first parse error is returned beside the map.
GoFileIds(t) == {i \in FileIds : t.files[i].present /\ HasGoSuffix(t.files[i])}
ParseDirErrSkipsBadFiles(t) ==
    IF ~t.exists THEN "open: no such file or directory" ELSE "nil"
ParseDirErr(t) ==
    IF ~t.exists THEN "open: no such file or directory"
    ELSE IF \E i \in GoFileIds(t) : ~t.files[i].text.ok THEN "syntax error"
    ELSE "nil"
ParseDirKeepsEmptyPackage(t) ==
    LET good == {i \in GoFileIds(t) : t.files[i].text.ok}
        names == {t.files[i].text.Name : i \in good} \cup {"main"}
    IN  [n \in names |->
            [i \in {j \in good : t.files[j].text.Name = n} |-> t.files[i].text]]
ParseDir(t) ==
    LET good == {i \in GoFileIds(t) : t.files[i].text.ok}
        names == {t.files[i].text.Name : i \in good}
    IN  [n \in names |->
            [i \in {j \in good : t.files[j].text.Name = n} |-> t.files[i].text]]

\* client.Repositories.GetContents on a directory: its entries by name.
RECURSIVE ListFrom(_, _)
ListFrom(t, i) ==
    IF i > MaxFiles THEN <<>>
    ELSE (IF t.files[i].present
          THEN <<[base |-> i, ext |-> t.files[i].ext]>> ELSE <<>>)
         \o ListFrom(t, i + 1)
Listing(t) == ListFrom(t, 1)

-----------------------------------------------------------------------------
(* Histogram and import list *)

Min2(a, b) == IF a < b THEN a ELSE b
Max2(a, b) == IF a > b THEN a ELSE b
RECURSIVE MinSeq(_)
MinSeq(q) == IF Len(q) = 1 THEN q[1] ELSE Min2(Head(q), MinSeq(Tail(q)))
RECURSIVE MaxSeq(_)
MaxSeq(q) == IF Len(q) = 1 THEN q[1] ELSE Max2(Head(q), MaxSeq(Tail(q)))

\* histogram.Hist(bins, input): no bucket for an empty input, one bucket when
\* all values are equal, otherwise bins buckets of equal width over
\* [min, max], a value going to bucket floor((v - min) / width), the maximum
\* to the last one.  The bounds of a bucket are kept in units of 1/bins.
BucketOf(bins, lo, hi, v) == Min2(((v - lo) * bins) \div (hi - lo), bins - 1)
Hist(bins, input) ==
    IF input = <<>> \/ bins = 0 THEN <<>>
    ELSE LET lo == MinSeq(input)
             hi == MaxSeq(input)
         IN  IF lo = hi
             THEN <<[Count |-> Len(input), Min |-> lo * bins, Max |-> hi * bins]>>
             ELSE [b \in 1..bins |->
                     [Count |-> Cardinality({k \in 1..Len(input) :
                                   BucketOf(bins, lo, hi, input[k]) = b - 1}),
                      Min |-> lo * bins + (b - 1) * (hi - lo),
                      Max |-> lo * bins + b * (hi - lo)]]

\* toSlice(imports): the keys of the map, in the order the map iteration
\* yields them, which is any order.
RECURSIVE toSlice(_)
toSlice(is) ==
    IF is = {} THEN {<<>>}
    ELSE UNION {{<<x>> \o r : r \in toSlice(is \ {x})} : x \in is}

\* alphabetical.Less
LessDescending(a, i, j) == StrLess(a[j], a[i])
Less(a, i, j) == StrLess(a[i], a[j])

\* sort.Sort(i) on an alphabetical: as an insertion sort by Less
RECURSIVE Insert(_, _)
Insert(sorted, x) ==
    IF sorted = <<>> THEN <<x>>
    ELSE IF Less(<<x, Head(sorted)>>, 1, 2) THEN <<x>> \o sorted
    ELSE <<Head(sorted)>> \o Insert(Tail(sorted), x)
RECURSIVE Sort(_)
Sort(a) == IF a = <<>> THEN <<>> ELSE Insert(Sort(Tail(a)), Head(a))

-----------------------------------------------------------------------------
(* Inputs *)

Tokens == {"github.com", "/", "o", "%", "?"}
AllLocators == UNION {[1..n -> Tokens] : n \in 0..MaxLocLen}

LocLocal == <<"o">>                               \* o
LocRepo == <<"github.com", "/", "o", "/", "o">>   \* github.com/o/o
Locators == {LocLocal, LocRepo}

OneFile ==
    [present |-> TRUE, ext |-> ".go",
     text |-> [ok |-> TRUE, Name |-> "p", Decls |-> <<Func(IdF)>>,
               Imports |-> <<PathB, PathA>>]]
SmallTrees ==
    {NoDir,
     [exists |-> TRUE, files |-> [i \in FileIds |-> IF i = 1 THEN OneFile ELSE Absent]]}

\* Every directory under the two representative locators, and every locator
\* over the two representative directories.
Init ==
    /\ \/ pkg \in Locators /\ tree \in Trees
       \/ pkg \in AllLocators /\ tree \in SmallTrees
    /\ mode = "none"
    /\ pc = "start"
    /\ err = "nil"
    /\ s = <<>>
    /\ dirC = <<>>
    /\ idx = 0
    /\ c = BadText
    /\ pkgs = <<>>
    /\ todoPkgs = {}
    /\ curPkg = ""
    /\ todoFiles = {}
    /\ publicFunctions = 0
    /\ fileCount = 0
    /\ data = <<>>
    /\ imports = {}
    /\ calls = <<>>
    /\ stdout = <<>>
    /\ wfail = {}

githubVars == <<s, dirC, idx, c>>
localVars == <<pkgs, todoPkgs, curPkg, todoFiles>>
accVars == <<publicFunctions, fileCount, data, imports>>
outVars == <<stdout, wfail>>

\* return <error>
Return(e) == pc' = "done" /\ err' = e

-----------------------------------------------------------------------------
(* Output *)

NoName == ""
HistLine(h) == [kind |-> "histogram", buckets |-> h]
\* "Package '%s' has %d exported function(s) across %d file(s)\n", and the
\* same without the name in parseGithubPackage
SummaryLine(name, funcs, files) ==
    [kind |-> "summary", name |-> name, funcs |-> funcs, files |-> files]
\* "Importing the following: %v\n"
ImportsLine(i) == [kind |-> "imports", list |-> i]

\* a write to os.Stdout that succeeds (ok) or fails
Write(stream, line, ok) == IF ok THEN Append(stream, line) ELSE stream
Failed(step, ok) == IF ok THEN {} ELSE {step}

\* fmt.Printf of the summary line and of the import list: the error Printf
\* returns is dropped.
PrintfBoth(stream, summary, list, okSummary, okImports) ==
    Write(Write(stream, summary, okSummary), list, okImports)

-----------------------------------------------------------------------------
(* run -> parseGithubPackage *)

Owner(segs) == segs[2]
Repo(segs) == segs[3]
DirPath(segs) == Join(SubSeq(segs, 4, Len(segs)))
NoFile == [base |-> 0, ext |-> ""]
Call(kind, segs, file, result) ==
    [kind |-> kind, owner |-> Owner(segs), repo |-> Repo(segs),
     dir |-> DirPath(segs), file |-> file, result |-> result]

\* run, then parseGithubPackage up to the check of the segments
GithubLocator ==
    /\ pc = "start"
    /\ HasGithubPrefix(pkg)
    /\ mode' = "github"
    /\ pkg' = <<>>
    /\ IF UrlParseFails(pkg)
       THEN Return("parsing url") /\ s' = s
       ELSE /\ s' = Split(UrlPath(pkg))
            /\ IF TooFewSegments(s')
               THEN Return("package not specified")
               ELSE pc' = "list" /\ err' = err
    /\ UNCHANGED <<tree, dirC, idx, c, localVars, accVars, calls, outVars>>

\* the listing call, and the declaration of the accumulators
GithubList ==
    /\ pc = "list"
    /\ \E netOk \in BOOLEAN :
          LET ok == netOk /\ tree.exists
          IN  /\ calls' = Append(calls,
                    Call("list", s, NoFile, IF ok THEN "ok" ELSE "error"))
              /\ IF ok
                 THEN /\ dirC' = Listing(tree)
                      /\ idx' = 1
                      /\ pc' = "range"
                      /\ err' = err
                 ELSE /\ Return("getting package")
                      /\ UNCHANGED <<dirC, idx>>
    /\ publicFunctions' = 0
    /\ fileCount' = 0
    /\ data' = <<>>
    /\ imports' = {}
    /\ UNCHANGED <<pkg, tree, mode, s, c, localVars, outVars>>

\* an entry whose name does not end in ".go": continue
GithubSkipCountsFile ==
    /\ pc = "range"
    /\ idx <= Len(dirC)
    /\ ~HasGoSuffix(dirC[idx])
    /\ fileCount' = fileCount + 1
    /\ idx' = idx + 1
    /\ UNCHANGED <<pkg, tree, mode, pc, err, s, dirC, c, localVars,
                   publicFunctions, data, imports, calls, outVars>>
GithubSkip ==
    /\ pc = "range"
    /\ idx <= Len(dirC)
    /\ ~HasGoSuffix(dirC[idx])
    /\ idx' = idx + 1
    /\ UNCHANGED <<pkg, tree, mode, pc, err, s, dirC, c, localVars, accVars,
                   calls, outVars>>

\* fileCount++, the content call and GetContent
GithubFetch ==
    /\ pc = "range"
    /\ idx <= Len(dirC)
    /\ HasGoSuffix(dirC[idx])
    /\ fileCount' = fileCount + 1
    /\ \E result \in {"ok", "error", "undecodable"} :
          /\ calls' = Append(calls, Call("content", s, dirC[idx], result))
          /\ IF result = "ok"
             THEN /\ c' = tree.files[dirC[idx].base].text
                  /\ pc' = "scan"
                  /\ err' = err
             ELSE /\ Return(IF result = "error" THEN "getting file"
                            ELSE "getting file contents")
                  /\ c' = c
    /\ UNCHANGED <<pkg, tree, mode, s, dirC, idx, localVars, publicFunctions,
                   data, imports, outVars>>

\* parser.ParseFile and the rest of the loop body
GithubScan ==
    /\ pc = "scan"
    /\ IF ~c.ok
       THEN /\ Return("parsing file")
            /\ UNCHANGED <<idx, publicFunctions, data, imports>>
       ELSE /\ publicFunctions' = publicFunctions + ScanDecls(c.Decls).publicFunctions
            /\ data' = Append(data, ScanDecls(c.Decls).publicFuncsPerFile)
            /\ imports' = AddImports(imports, c.Imports)
            /\ idx' = idx + 1
            /\ pc' = "range"
            /\ err' = err
    /\ UNCHANGED <<pkg, tree, mode, s, dirC, c, localVars, fileCount, calls,
                   outVars>>

\* after the loop: histogram, summary line, import list
GithubReport ==
    /\ pc = "range"
    /\ idx > Len(dirC)
    /\ \E okHist \in BOOLEAN, okSummary \in BOOLEAN, okImports \in BOOLEAN,
          out \in toSlice(imports) :
          IF ~okHist
          THEN /\ Return("write error")
               /\ stdout' = stdout
               /\ wfail' = wfail \cup {"histogram"}
          ELSE /\ stdout' = PrintfBoth(
                      Append(stdout, HistLine(Hist(GithubBins, data))),
                      SummaryLine(NoName, publicFunctions, fileCount),
                      ImportsLine(Sort(out)), okSummary, okImports)
               /\ wfail' = wfail \cup Failed("summary", okSummary)
                                \cup Failed("imports", okImports)
               /\ Return("nil")
    /\ UNCHANGED <<pkg, tree, mode, githubVars, localVars, accVars, calls>>

-----------------------------------------------------------------------------
(* run -> parseLocalPackage *)

\* run, then parser.ParseDir
LocalParseDir ==
    /\ pc = "start"
    /\ ~HasGithubPrefix(pkg)
    /\ mode' = "local"
    /\ pkg' = <<>>
    /\ IF ParseDirErr(tree) # "nil"
       THEN /\ Return(ParseDirErr(tree))
            /\ UNCHANGED <<pkgs, todoPkgs>>
       ELSE /\ pkgs' = ParseDir(tree)
            /\ todoPkgs' = DOMAIN pkgs'
            /\ pc' = "pkgs"
            /\ err' = err
    /\ UNCHANGED <<tree, githubVars, curPkg, todoFiles, accVars, calls, outVars>>

\* the next key of pkgs, in map order, and the declaration of the accumulators
LocalNextPackage ==
    /\ pc = "pkgs"
    /\ \E p \in todoPkgs :
          /\ curPkg' = p
          /\ todoPkgs' = todoPkgs \ {p}
          /\ todoFiles' = DOMAIN pkgs[p]
    /\ publicFunctions' = 0
    /\ fileCount' = 0
    /\ data' = <<>>
    /\ imports' = {}
    /\ pc' = "files"
    /\ UNCHANGED <<pkg, tree, mode, err, githubVars, pkgs, calls, outVars>>

\* the next key of pkg.Files, in map order, and the loop body
LocalFile ==
    /\ pc = "files"
    /\ \E f \in todoFiles :
          LET file == pkgs[curPkg][f]
          IN  /\ fileCount' = fileCount + 1
              /\ publicFunctions' =
                     publicFunctions + ScanDecls(file.Decls).publicFunctions
              /\ data' = Append(data, ScanDecls(file.Decls).publicFuncsPerFile)
              /\ imports' = AddImports(imports, file.Imports)
              /\ todoFiles' = todoFiles \ {f}
    /\ UNCHANGED <<pkg, tree, mode, pc, err, githubVars, pkgs, todoPkgs, curPkg,
                   calls, outVars>>

\* after the loop over pkg.Files: histogram, summary line, import list
LocalReport ==
    /\ pc = "files"
    /\ todoFiles = {}
    /\ \E okHist \in BOOLEAN, okSummary \in BOOLEAN, okImports \in BOOLEAN,
          out \in toSlice(imports) :
          IF ~okHist
          THEN /\ Return("write error")
               /\ stdout' = stdout
               /\ wfail' = wfail \cup {"histogram"}
          ELSE /\ stdout' = PrintfBoth(
                      Append(stdout, HistLine(Hist(LocalBins, data))),
                      SummaryLine(curPkg, publicFunctions, fileCount),
                      ImportsLine(Sort(out)), okSummary, okImports)
               /\ wfail' = wfail \cup Failed("summary", okSummary)
                                \cup Failed("imports", okImports)
               /\ pc' = "pkgs"
               /\ err' = err
    /\ UNCHANGED <<pkg, tree, mode, githubVars, localVars, accVars, calls>>

\* after the loop over pkgs: return nil
LocalReturn ==
    /\ pc = "pkgs"
    /\ todoPkgs = {}
    /\ Return("nil")
    /\ UNCHANGED <<pkg, tree, mode, githubVars, localVars, accVars, calls, outVars>>

-----------------------------------------------------------------------------
Next ==
    \/ GithubLocator
    \/ GithubList
    \/ GithubSkip
    \/ GithubFetch
    \/ GithubScan
    \/ GithubReport
    \/ LocalParseDir
    \/ LocalNextPackage
    \/ LocalFile
    \/ LocalReport
    \/ LocalReturn

Spec == Init /\ [][Next]_vars

-----------------------------------------------------------------------------
(* Properties *)

Last(q) == q[Len(q)]
Lines(kind) == {k \in 1..Len(stdout) : stdout[k].kind = kind}
LocatorErrors == {"parsing url", "package not specified"}

\* The exported functions of a file, its imports, and the files of a unit,
\* read off the directory.
Exported(text) ==
    Cardinality({k \in 1..Len(text.Decls) :
        text.Decls[k].isFn /\ text.Decls[k].name[1] \in 65..90})
RECURSIVE TotalOf(_)
TotalOf(ids) ==
    IF ids = {} THEN 0
    ELSE LET i == CHOOSE j \in ids : TRUE
         IN  Exported(tree.files[i].text) + TotalOf(ids \ {i})
ImportsOf(ids) ==
    UNION {{tree.files[i].text.Imports[k] :
               k \in 1..Len(tree.files[i].text.Imports)} : i \in ids}
GoIds == {i \in FileIds : tree.files[i].present /\ tree.files[i].ext = ".go"}
\* the files of the unit a summary line names: a package in local mode, the
\* directory in remote mode
UnitOf(name) ==
    IF mode = "local" THEN {i \in GoIds : tree.files[i].text.Name = name}
    ELSE GoIds
Ascending(l) == \A i \in 1..Len(l) : \A j \in 1..Len(l) : i < j => StrLess(l[i], l[j])
\* as many files of ids have v exported functions as data has entries v
SameCounts(ids) ==
    \A v \in 0..publicFunctions + 1 :
        Cardinality({k \in 1..Len(data) : data[k] = v})
            = Cardinality({i \in ids : Exported(tree.files[i].text) = v})
\* every file of the directory parses and declares the same package
OnePackage ==
    /\ tree.exists
    /\ \A i \in GoIds : tree.files[i].text.ok
    /\ \A i \in GoIds : \A j \in GoIds :
          tree.files[i].text.Name = tree.files[j].text.Name
Succeeded == pc = "done" /\ err = "nil" /\ wfail = {}

\* C1: whenever a file has been fully processed, and so when the summary line
\* is printed, publicFunctions is the sum of data, fileCount is the length of
\* data and the number of files processed for the unit; every summary line
\* carries the total and the number of files of its own unit only.
C1_CountsMatchSeries ==
    /\ (mode = "github" /\ (pc = "range" \/ (pc = "done" /\ err = "nil"))) =>
          /\ publicFunctions = SumSeq(data)
          /\ fileCount = Len(data)
          /\ Len(data) = Cardinality({k \in 1..idx - 1 : dirC[k].ext = ".go"})
    /\ (mode = "local" /\ pc = "files") =>
          /\ publicFunctions = SumSeq(data)
          /\ fileCount = Len(data)
          /\ Len(data) = Cardinality((DOMAIN pkgs[curPkg]) \ todoFiles)
    /\ \A k \in Lines("summary") :
          /\ stdout[k].funcs = TotalOf(UnitOf(stdout[k].name))
          /\ stdout[k].files = Cardinality(UnitOf(stdout[k].name))
C1_Witness ==
    /\ mode = "local"
    /\ pc = "files"
    /\ todoFiles = {}
    /\ Lines("summary") # {}
    /\ publicFunctions > 0
    /\ \E k \in Lines("summary") : stdout[k].funcs > 0

\* C2: a remote locator whose path has fewer than two separators, so fewer
\* than three segments, makes run return "package not specified" in its
\* first step with no API call made, and no run that stopped at the locator
\* has made one.
Separators(str) == Cardinality({i \in 1..Len(str) : str[i] = "/"})
ShortLocator ==
    /\ pc = "start"
    /\ HasGithubPrefix(pkg)
    /\ ~UrlParseFails(pkg)
    /\ Separators(UrlPath(pkg)) + 1 < 3
C2_ShortLocatorRejected ==
    /\ [][ShortLocator =>
            pc' = "done" /\ err' = "package not specified" /\ calls' = <<>>]_vars
    /\ []((mode = "github" /\ Len(s) < 3) => (pc = "done" /\ calls = <<>>))
C2_Witness ==
    /\ mode = "github"
    /\ Len(s) = 2
    /\ s[2] # <<>>
    /\ pc = "done"
    /\ err = "package not specified"

\* C3: once the directory could not be read, a file could not be parsed or an
\* API call failed, run has returned an error and nothing has been written.
SourceFailed ==
    \/ mode = "local" /\ (~tree.exists \/ \E i \in GoIds : ~tree.files[i].text.ok)
    \/ \E k \in 1..Len(calls) : calls[k].result # "ok"
    \/ /\ mode = "github"
       /\ pc # "scan"
       /\ \E k \in 1..Len(calls) :
             /\ calls[k].kind = "content"
             /\ calls[k].result = "ok"
             /\ ~tree.files[calls[k].file.base].text.ok
C3_FailureWritesNothing ==
    SourceFailed => (pc = "done" /\ err # "nil" /\ stdout = <<>> /\ wfail = {})
C3_Witness ==
    /\ mode = "github"
    /\ pc = "done"
    /\ err = "parsing file"
    /\ Len(data) >= 1

\* C4 as claimed: a local directory without a source file gets a summary line
\* of 0 functions across 0 files, an empty histogram and an empty import list.
EmptyLocalRun == mode = "local" /\ pc = "done" /\ tree.exists /\ GoIds = {}
Produced(ids) ==
    /\ Len(stdout) = 3
    /\ stdout[1].kind = "histogram"
    /\ stdout[2].kind = "summary"
    /\ stdout[2].funcs = TotalOf(ids)
    /\ stdout[2].files = Cardinality(ids)
    /\ publicFunctions = TotalOf(ids)
    /\ fileCount = Cardinality(ids)
    /\ SameCounts(ids)
    /\ stdout[3].kind = "imports"
    /\ Range(stdout[3].list) = ImportsOf(ids)
    /\ imports = ImportsOf(ids)
JustReported ==
    /\ \/ mode = "local" /\ pc = "pkgs"
       \/ mode = "github" /\ pc = "done" /\ err = "nil"
    /\ stdout # <<>>
    /\ Last(stdout).kind = "imports"
C6_ImportListSortedDistinct ==
    JustReported =>
        /\ Ascending(Last(stdout).list)
        /\ Range(Last(stdout).list) =
              ImportsOf(IF mode = "local" THEN UnitOf(curPkg) ELSE GoIds)
C6_Witness ==
    /\ JustReported
    /\ mode = "local"
    /\ Len(data) = 2
    /\ Len(Last(stdout).list) = 3

\* C7: a run in which a write of the histogram, of the summary line or of the
\* import list failed does not return success.
C7_FailedWriteFailsRun == (pc = "done" /\ wfail # {}) => err # "nil"

GoEntries == SelectSeq(dirC, LAMBDA e : e.ext = ".go")
InFlight ==
    IF pc = "scan" \/ (pc = "done" /\ err \in {"getting file",
                          "getting file contents", "parsing file"})
    THEN 1 ELSE 0
C9_CallsSequential ==
    mode = "github" =>
        /\ (pc = "list" \/ err \in LocatorErrors) => calls = <<>>
        /\ (pc # "list" /\ err \notin LocatorErrors) =>
              /\ Len(calls) = 1 + fileCount
              /\ calls[1].kind = "list"
              /\ calls[1].dir = DirPath(s)
              /\ fileCount =
                    Cardinality({k \in 1..idx - 1 : dirC[k].ext = ".go"}) + InFlight
              /\ \A k \in 1..fileCount :
                    /\ k <= Len(GoEntries)
                    /\ calls[k + 1].kind = "content"
                    /\ calls[k + 1].file = GoEntries[k]
              /\ \A k \in 1..Len(calls) :
                    /\ calls[k].owner = s[2]
                    /\ calls[k].repo = s[3]
                    /\ k < Len(calls) => calls[k].result = "ok"
              /\ Last(calls).result # "ok" => (pc = "done" /\ err # "nil")
              /\ (pc = "done" /\ err = "nil") =>
                    /\ Len(calls) = 1 + Len(GoEntries)
                    /\ Last(calls).result = "ok"
C9_Witness ==
    /\ mode = "github"
    /\ pc = "done"
    /\ err = "nil"
    /\ Len(dirC) = 2
    /\ Len(calls) = 2

\* C10: the report of a successful local run over one package is that of the
\* files taken in the order of their names, whatever the order they were
\* visited in: same buckets, same summary line, same import list.
SeriesByName == [k \in 1..Cardinality(GoIds) |->
    Exported(tree.files[CHOOSE i \in GoIds :
        Cardinality({j \in GoIds : j < i}) = k - 1].text)]
SortedImports(ids) == CHOOSE l \in toSlice(ImportsOf(ids)) : Ascending(l)
C10_ReportIndependentOfOrder ==
    (mode = "local" /\ OnePackage /\ GoIds # {} /\ Succeeded) =>
        stdout = << HistLine(Hist(5, SeriesByName)),
                    SummaryLine(curPkg, TotalOf(GoIds), Cardinality(GoIds)),
                    ImportsLine(SortedImports(GoIds)) >>
C10_Witness ==
    /\ mode = "local"
    /\ OnePackage
    /\ Succeeded
    /\ Len(data) = 2
    /\ data[1] > data[2]
    /\ Len(stdout[1].buckets) = 5
    /\ Len(stdout[3].list) = 3

=============================================================================
